---- MODULE Spec2Model ----
(***************************************************************************)
(* RankedStream::retrieve_documents (src/src/rank/ranked_stream.rs): the   *)
(* match collector, the document assembler and the range-limited           *)
(* multi-criterion sort, as a state machine (Spec); and TaskStore           *)
(* (src/meilisearch-lib/src/tasks/task_store/mod.rs): the task store and   *)
(* its pending queue under concurrent callers (SpecTasks).                 *)
(***************************************************************************)
EXTENDS Integers, Sequences, FiniteSets, TLC

\* ------------------------------------------------------------------ bounds
MaxDocs == 3          \* documents of a ranking input
CollectDocs == 2      \* document ids of a collector input
MaxStrLen == 2        \* length of a streamed string and of a query
MaxDistance == 1      \* largest distance an automaton accepts
MaxAttribute == 1     \* attribute ids are 0..MaxAttribute
MaxPosition == 0      \* attribute positions are 0..MaxPosition
MaxOccurrences == 2   \* occurrences of a collector input
MaxKey == 1           \* a criterion ranks a document 0..MaxKey
MaxCriteria == 2      \* length of the criteria list
MaxRange == 4         \* largest Range end
MaxCalls == 2         \* retrieve_documents calls on one handle
NumAutomatons == 2    \* automatons of the handle (query indexes 0..NumAutomatons-1)
MaxTaskId == 2        \* task ids are 0..MaxTaskId
NumCallers == 2       \* concurrent callers of the task store
MaxBatch == 1         \* tasks of one update_tasks call

\* ------------------------------------------------------------ generic help
Min(a, b) == IF a <= b THEN a ELSE b

Perms(n) == {p \in [1..n -> 1..n] : \A i, j \in 1..n : i # j => p[i] # p[j]}

\* every ordering of the elements of the sequence s
Arrangements(s) == {[i \in 1..Len(s) |-> s[p[i]]] : p \in Perms(Len(s))}

\* ------------------------------------------------- automatons and strings
\* A streamed string is seen by the code through its length and through
\* what each automaton evaluates it to; NoMatch marks an automaton that
\* does not accept the string (the union stream lists no occurrence for it).
NoMatch == MaxDistance + 1

eval(index, string) == string.dist[index + 1]

query_len(auts, index) == auts[index + 1]

Ordering(x, y) == IF x < y THEN "Less" ELSE IF x = y THEN "Equal" ELSE "Greater"

\* ------------------------------------------------------------------ Match
\* canonical Match order, a total order: query index, distance, attribute,
\* attribute index; two Matches that agree on the four differ in is_exact
\* only, and then the one that is not exact is first (the fields in the
\* order the Match literal of lines 67-73 gives them)
MatchCmp(a, b) ==
    IF a.query_index # b.query_index THEN Ordering(a.query_index, b.query_index)
    ELSE IF a.distance # b.distance THEN Ordering(a.distance, b.distance)
    ELSE IF a.attribute # b.attribute THEN Ordering(a.attribute, b.attribute)
    ELSE IF a.attribute_index # b.attribute_index
         THEN Ordering(a.attribute_index, b.attribute_index)
    ELSE IF a.is_exact = b.is_exact THEN "Equal"
    ELSE IF b.is_exact THEN "Less" ELSE "Greater"

MatchesSorted(ms) == \A i \in 1..(Len(ms) - 1) : MatchCmp(ms[i], ms[i + 1]) # "Greater"

\* let is_exact = distance == 0 && string.len() == automaton.query_len();
is_exact_without_len(auts, index, string, distance) == distance = 0

is_exact(auts, index, string, distance) ==
    distance = 0 /\ string.len = query_len(auts, index)

\* Match { query_index, distance, attribute, attribute_index, is_exact }
NewMatch(auts, iv, di, string) ==
    LET distance == eval(iv.index, string)
    IN [query_index |-> iv.index,
        distance |-> distance,
        attribute |-> di.attribute,
        attribute_index |-> di.attribute_index,
        is_exact |-> is_exact(auts, iv.index, string, distance)]

\* matches.entry(di.document).or_insert_with(Vec::new).push(match_)
entry_push_overwrite(m, document, match) ==
    IF document \in DOMAIN m
    THEN [m EXCEPT ![document] = <<match>>]
    ELSE m @@ (document :> <<match>>)

entry_push(m, document, match) ==
    IF document \in DOMAIN m
    THEN [m EXCEPT ![document] = Append(@, match)]
    ELSE m @@ (document :> <<match>>)

\* for di in iv.doc_indexes.as_slice() { ... }
RECURSIVE CollectDocIndexes(_, _, _, _, _)
CollectDocIndexes(m, auts, string, iv, dis) ==
    IF dis = <<>> THEN m
    ELSE CollectDocIndexes(
           entry_push(m, Head(dis).document, NewMatch(auts, iv, Head(dis), string)),
           auts, string, iv, Tail(dis))

\* for iv in indexed_values { ... }
RECURSIVE CollectIndexedValues(_, _, _, _)
CollectIndexedValues(m, auts, string, ivs) ==
    IF ivs = <<>> THEN m
    ELSE CollectIndexedValues(
           CollectDocIndexes(m, auts, string, Head(ivs), Head(ivs).doc_indexes),
           auts, string, Tail(ivs))

\* while let Some(..) = self.stream.next(): the loop goes on while the
\* stream yields an entry
stream_has_next_unless_empty_range(s, r) == s # <<>> /\ r.start < r.end

stream_has_next(s, r) == s # <<>>

\* ----------------------------------------------------------- the assembler
\* matches.sort_unstable(): some ordering of the bag that is non-decreasing
\* under the Match order (ties in an order the sort chooses)
sort_unstable_skipped(ms) == {ms}

sort_unstable_by_query_index(ms) ==
    {a \in Arrangements(ms) :
        \A i \in 1..(Len(a) - 1) : a[i].query_index <= a[i + 1].query_index}

sort_unstable(ms) == {a \in Arrangements(ms) : MatchesSorted(a)}

\* Document::from_sorted_matches(id, matches)
from_sorted_matches(id, ms) == [id |-> id, matches |-> ms]

\* matches.into_iter().map(..).collect(): the map is iterated in an order
\* its hashing decides; every order of its keys is possible
AssembledDocuments(m) ==
    LET Docs(id) == {from_sorted_matches(id, ms) : ms \in sort_unstable(m[id])}
        AllDocs == UNION {Docs(id) : id \in DOMAIN m}
        n == Cardinality(DOMAIN m)
    IN {docs \in [1..n -> AllDocs] : \A id \in DOMAIN m : \E i \in 1..n : docs[i].id = id}

\* --------------------------------------------------------------- criteria
\* A Criterion ranks a Document by a key; evaluate compares the keys. eq is
\* equality of the keys, or (fine) holds of a Document and itself only: both
\* satisfy "eq(a, b) implies evaluate(a, b) = Equal".
evaluate(criterion, a, b) == Ordering(criterion.key[a.id], criterion.key[b.id])

eq(criterion, a, b) ==
    IF criterion.fine THEN a.id = b.id
    ELSE criterion.key[a.id] = criterion.key[b.id]

SortedBy(criterion, s) ==
    \A i \in 1..(Len(s) - 1) : evaluate(criterion, s[i], s[i + 1]) # "Greater"

\* group.sort_unstable_by(|a, b| criterion.evaluate(a, b)): some ordering of
\* the group that is non-decreasing under the comparator
sort_unstable_by(group, criterion) ==
    {a \in Arrangements(group) : SortedBy(criterion, a)}

contains_exclusive(r, x) == r.start < x /\ x < r.end

\* Range::contains
contains(r, x) == r.start <= x /\ x < r.end

\* Range::len
range_len(r) == IF r.start < r.end THEN r.end - r.start ELSE 0

\* a group is a slice of documents: an offset and a length
Slice(docs, group) == SubSeq(docs, group.off + 1, group.off + group.len)

Splice_at_front(docs, off, seg) ==
    [i \in 1..Len(docs) |-> IF i <= Len(seg) THEN seg[i] ELSE docs[i]]

Splice(docs, off, seg) ==
    [i \in 1..Len(docs) |->
        IF off < i /\ i <= off + Len(seg) THEN seg[i - off] ELSE docs[i]]

RunLen_single(s, criterion) == IF Len(s) = 0 THEN 0 ELSE 1

\* length of the first run of s whose neighbours satisfy eq
RECURSIVE RunLen(_, _)
RunLen(s, criterion) ==
    IF Len(s) <= 1 THEN Len(s)
    ELSE IF eq(criterion, s[1], s[2]) THEN 1 + RunLen(Tail(s), criterion)
    ELSE 1

\* GroupByMut::new(group, |a, b| criterion.eq(a, b)): the maximal runs of
\* neighbours that satisfy eq, as slices
RECURSIVE GroupByMut(_, _, _)
GroupByMut(s, off, criterion) ==
    IF s = <<>> THEN <<>>
    ELSE LET k == RunLen(s, criterion)
         IN <<[off |-> off, len |-> k]>>
              \o GroupByMut(SubSeq(s, k + 1, Len(s)), off + k, criterion)

\* let start = cmp::min(range.start, documents.len());
split_start_unclamped(r, docs) == r.start

split_start(r, docs) == Min(r.start, Len(docs))

\* documents.truncate(range.len())
truncate_to_end(docs, r) == SubSeq(docs, 1, Min(r.end, Len(docs)))

truncate(docs, r) == SubSeq(docs, 1, Min(range_len(r), Len(docs)))

\* documents.split_off(start)
split_off(docs, at) == SubSeq(docs, at + 1, Len(docs))

\* ------------------------------------------------------------------ inputs
Ranges == {r \in [start : 0..MaxRange, end : 0..MaxRange] : r.start <= r.end}

AutomatonSets == [1..NumAutomatons -> 1..MaxStrLen]

Strings ==
    {s \in [len : 1..MaxStrLen, dist : [1..NumAutomatons -> 0..NoMatch]] :
        \E j \in 1..NumAutomatons : s.dist[j] # NoMatch}

\* the query indexes whose automaton accepts the string, ascending from j
RECURSIVE MatchingIndexes(_, _)
MatchingIndexes(s, j) ==
    IF j > NumAutomatons THEN <<>>
    ELSE (IF s.dist[j] # NoMatch THEN <<j - 1>> ELSE <<>>) \o MatchingIndexes(s, j + 1)

DocIndexes ==
    [document : 1..CollectDocs, attribute : 0..MaxAttribute, attribute_index : 0..MaxPosition]

DocIndexLess(a, b) ==
    \/ a.document < b.document
    \/ a.document = b.document /\ a.attribute < b.attribute
    \/ a.document = b.document /\ a.attribute = b.attribute
         /\ a.attribute_index < b.attribute_index

\* the locations of one string for one automaton: k of them, ascending
DocIndexLists(k) ==
    {l \in [1..k -> DocIndexes] : \A i \in 1..(k - 1) : DocIndexLess(l[i], l[i + 1])}

\* one occurrence record per accepting automaton, at most t locations in all
RECURSIVE IndexedValues(_, _)
IndexedValues(J, t) ==
    IF J = <<>> THEN {<<>>}
    ELSE UNION {UNION {{<<[index |-> Head(J), doc_indexes |-> l]>> \o rest :
                          rest \in IndexedValues(Tail(J), t - k)} :
                       l \in DocIndexLists(k)} : k \in 1..t}

Entries(t) ==
    UNION {{[string |-> s, indexed_values |-> ivs] :
              ivs \in IndexedValues(MatchingIndexes(s, 1), t)} : s \in Strings}

RECURSIVE Occurrences(_)
Occurrences(ivs) ==
    IF ivs = <<>> THEN 0 ELSE Len(Head(ivs).doc_indexes) + Occurrences(Tail(ivs))

\* the streams of at most t occurrences
RECURSIVE Streams(_)
Streams(t) ==
    {<<>>} \cup UNION {{<<e>> \o rest : rest \in Streams(t - Occurrences(e.indexed_values))} :
                         e \in Entries(t)}

\* one string, accepted by the first automaton at distance 0, found in the
\* documents 1..n
DocStream(n) ==
    IF n = 0 THEN <<>>
    ELSE <<[string |-> [len |-> 1, dist |-> [j \in 1..NumAutomatons |-> IF j = 1 THEN 0 ELSE NoMatch]],
            indexed_values |->
              <<[index |-> 0,
                 doc_indexes |-> [d \in 1..n |-> [document |-> d, attribute |-> 0, attribute_index |-> 0]]]>>]>>

Criteria(ids) == [key : [ids -> 0..MaxKey], fine : BOOLEAN]

CriteriaLists(ids) == UNION {[1..k -> Criteria(ids)] : k \in 0..MaxCriteria}

\* ------------------------------------------------------------------- state
VARIABLES
    automatons,     \* self.automatons: the query length of each automaton
    criteria,       \* self.criteria
    stream,         \* self.stream: the entries it has still to yield
    pc,             \* "idle", "collect", "rank", "done" or "panic"
    calls,          \* retrieve_documents calls made on the handle
    range,          \* the Range of the current call
    matches,        \* document id -> Vec<Match>
    documents,      \* Vec<Document>
    groups,         \* the group sequence being built
    tmp_groups,     \* the groups of the previous pass still to visit
    current_range,  \* cumulative position of the group being visited
    ci,             \* criteria whose pass has begun
    result,         \* the value the last call returned
    consumed,       \* history: the entries this call pulled from the stream
    assembled,      \* history: documents as the assembler built them
    sorts,          \* history: the groups this call sorted, in order
    source,         \* history: the entries the stream held at construction
    store,          \* TaskStore.store: the committed tasks, by id
    pending_queue,  \* TaskStore.pending_queue
    tpc,            \* where each caller of the task store is in its call
    tid,            \* the task id each caller holds between two steps
    last            \* history: what the last task store step returned

rvars == <<automatons, criteria, stream, pc, calls, range, matches, documents,
           groups, tmp_groups, current_range, ci, result, consumed, assembled,
           sorts, source>>

tvars == <<store, pending_queue, tpc, tid, last>>

vars == <<rvars, tvars>>

Callers == 1..NumCallers

EmptyMap == [d \in {} |-> <<>>]

InitCall ==
    /\ pc = "idle"
    /\ calls = 0
    /\ range = [start |-> 0, end |-> 0]
    /\ matches = EmptyMap
    /\ documents = <<>>
    /\ groups = <<>>
    /\ tmp_groups = <<>>
    /\ current_range = [start |-> 0, end |-> 0]
    /\ ci = 0
    /\ result = <<>>
    /\ consumed = <<>>
    /\ assembled = <<>>
    /\ sorts = <<>>
    /\ source = stream

\* ------------------------------------------------------------- TaskStore
\* (src/meilisearch-lib/src/tasks/task_store/mod.rs) A Task is its id and
\* the last of its events ("Empty" when it has none); the Store is the map
\* of the committed tasks; Option values are sets of at most one element.
TaskIds == 0..MaxTaskId

Events == {"Empty", "Created", "Processing"}

Tasks == [id : TaskIds, events : Events]

Max(S) == CHOOSE x \in S : \A y \in S : y <= x

EmptyStore == [i \in {} |-> 0]

\* Store::next_task_id on the tasks a transaction sees: 0 when there is
\* none, the id after the largest otherwise
next_task_id(s) == IF DOMAIN s = {} THEN 0 ELSE Max(DOMAIN s) + 1

\* Store::put: the task is written under its id
put(s, task) == [i \in DOMAIN s \cup {task.id} |-> IF i = task.id THEN task ELSE s[i]]

\* next_task_id read again in the transaction that read previous_id and
\* then put task, written the tasks it now sees: the id after the largest
\* one. When task.id = previous_id the assertion of test_increment_task_id
\* (lines 300-301) gives previous_id and the comment above it (lines
\* 298-299) gives task.id + 1; Store is not part of the source, so either
\* value can be returned.
next_task_id_after_put(previous_id, task, written) ==
    {next_task_id(written)} \cup (IF task.id = previous_id THEN {previous_id} ELSE {})

\* Store::get
get(s, id) == IF id \in DOMAIN s THEN {s[id]} ELSE {}

\* for task in tasks { store.put(&mut txn, &task)?; }
RECURSIVE put_all(_, _)
put_all(s, tasks) ==
    IF tasks = <<>> THEN s ELSE put_all(put(s, Head(tasks)), Tail(tasks))

\* txn.commit()?: what the store holds after the transaction that wrote
\* written, when it commits and when it fails
commit(ok, s, written) == IF ok THEN written ELSE s

\* `.await??`: register goes on to the queue only with the task committed
after_txn_ignoring_error(ok) == "reg_push"

after_txn(ok) == IF ok THEN "reg_push" ELSE "idle"

\* BinaryHeap<Reverse<TaskId>>, held as the sequence of its ids from the
\* top of the heap down: push
push(q, id) ==
    LET k == Cardinality({i \in 1..Len(q) : q[i] <= id})
    IN SubSeq(q, 1, k) \o <<id>> \o SubSeq(q, k + 1, Len(q))

\* peek().map(|rid| rid.0)
peek_bottom(q) == IF q = <<>> THEN {} ELSE {q[Len(q)]}

peek(q) == IF q = <<>> THEN {} ELSE {Head(q)}

\* drain().filter(|id| !to_remove.contains(&id.0)).collect()
RECURSIVE retain_removed(_, _)
retain_removed(q, to_remove) ==
    IF q = <<>> THEN <<>>
    ELSE IF Head(q) \in to_remove
         THEN <<Head(q)>> \o retain_removed(Tail(q), to_remove)
    ELSE retain_removed(Tail(q), to_remove)

RECURSIVE drain_filter_collect(_, _)
drain_filter_collect(q, to_remove) ==
    IF q = <<>> THEN <<>>
    ELSE IF Head(q) \in to_remove THEN drain_filter_collect(Tail(q), to_remove)
    ELSE push(drain_filter_collect(Tail(q), to_remove), Head(q))

\* get_task(id, None): the task, or Err(UnexistingTask(id))
get_task(s, id) ==
    LET task == get(s, id)
    IN [ok |-> task # {}, task |-> task]

\* list_tasks(None, None, None): every task of the store
list_tasks(s) == {s[i] : i \in DOMAIN s}

\* the batches update_tasks is called with
TaskBatches == UNION {[1..k -> Tasks] : k \in 0..MaxBatch}

\* what the last step returned: op names it, arg its argument (an id, or
\* the ids to remove), ret the ids returned, previous_id and next_id the
\* two reads of next_task_id around a put
Returned(op, arg, ret, ok, previous_id, next_id) ==
    [op |-> op, arg |-> arg, ret |-> ret, ok |-> ok,
     previous_id |-> previous_id, next_id |-> next_id]

\* TaskStore::new: an empty queue over the store; no caller is in a call
TaskInit ==
    /\ store = EmptyStore
    /\ pending_queue = <<>>
    /\ tpc = [p \in Callers |-> "idle"]
    /\ tid = [p \in Callers |-> 0]
    /\ last = Returned("new", {}, {}, TRUE, 0, 0)

\* a handle over any stream of a few occurrences, with no criterion
InitCollector ==
    /\ automatons \in AutomatonSets
    /\ stream \in Streams(MaxOccurrences)
    /\ criteria = <<>>
    /\ InitCall

\* a handle over n documents, with any criteria list over them
InitRanking ==
    /\ automatons = [j \in 1..NumAutomatons |-> 1]
    /\ \E n \in 0..MaxDocs :
          /\ stream = DocStream(n)
          /\ criteria \in CriteriaLists(1..n)
    /\ InitCall

Init == (InitCollector \/ InitRanking) /\ TaskInit

\* retrieve_documents(range): let mut matches = FnvHashMap::default();
Call ==
    /\ pc \in {"idle", "done"}
    /\ calls < MaxCalls
    /\ \E r \in Ranges : range' = r
    /\ pc' = "collect"
    /\ calls' = calls + 1
    /\ matches' = EmptyMap
    /\ documents' = <<>>
    /\ groups' = <<>>
    /\ tmp_groups' = <<>>
    /\ current_range' = [start |-> 0, end |-> 0]
    /\ ci' = 0
    /\ result' = <<>>
    /\ consumed' = <<>>
    /\ assembled' = <<>>
    /\ sorts' = <<>>
    /\ UNCHANGED <<tvars, source, automatons, criteria, stream>>

\* one turn of the while loop: an entry is pulled and its occurrences are
\* added to the map
Pull ==
    /\ pc = "collect"
    /\ stream_has_next(stream, range)
    /\ LET e == Head(stream)
       IN /\ matches' = CollectIndexedValues(matches, automatons, e.string, e.indexed_values)
          /\ consumed' = Append(consumed, e)
    /\ stream' = Tail(stream)
    /\ UNCHANGED <<tvars, source, automatons, criteria, pc, calls, range, documents, groups,
                   tmp_groups, current_range, ci, result, assembled, sorts>>

\* the loop is left; the map is collected into documents and the first
\* group is the whole of them
Assemble ==
    /\ pc = "collect"
    /\ ~stream_has_next(stream, range)
    /\ \E docs \in AssembledDocuments(matches) :
          /\ documents' = docs
          /\ assembled' = docs
          /\ groups' = <<[off |-> 0, len |-> Len(docs)]>>
    /\ pc' = "rank"
    /\ UNCHANGED <<tvars, source, automatons, criteria, stream, calls, range, matches,
                   tmp_groups, current_range, ci, result, consumed, sorts>>

\* for criterion in self.criteria: the groups are taken and the cursor reset
BeginPass ==
    /\ pc = "rank"
    /\ tmp_groups = <<>>
    /\ ci < Len(criteria)
    /\ ci' = ci + 1
    /\ tmp_groups' = groups
    /\ groups' = <<>>
    /\ current_range' = [start |-> 0, end |-> 0]
    /\ UNCHANGED <<tvars, source, automatons, criteria, stream, pc, calls, range, matches,
                   documents, result, consumed, assembled, sorts>>

\* 'grp: for group in tmp_groups: one group is visited
GroupStep ==
    /\ pc = "rank"
    /\ tmp_groups # <<>>
    /\ LET group == Head(tmp_groups)
           criterion == criteria[ci]
           cur == [start |-> current_range.start, end |-> current_range.end + group.len]
       IN IF contains(cur, range.start)
          THEN \E sorted \in sort_unstable_by(Slice(documents, group), criterion) :
                  LET subs == GroupByMut(sorted, group.off, criterion)
                      brk == cur.end >= range.end
                  IN /\ documents' = Splice(documents, group.off, sorted)
                     /\ sorts' = Append(sorts, [criterion |-> ci, start |-> cur.start, end |-> cur.end])
                     /\ groups' = IF brk THEN Append(groups, Head(subs)) ELSE groups \o subs
                     /\ tmp_groups' = IF brk THEN <<>> ELSE Tail(tmp_groups)
                     /\ current_range' = IF brk THEN cur ELSE [start |-> cur.end, end |-> cur.end]
          ELSE /\ groups' = Append(groups, group)
               /\ tmp_groups' = Tail(tmp_groups)
               /\ current_range' = [start |-> cur.end, end |-> cur.end]
               /\ UNCHANGED <<documents, sorts>>
    /\ UNCHANGED <<tvars, source, automatons, criteria, stream, pc, calls, range, matches, ci,
                   result, consumed, assembled>>

\* the window is cut out of documents and returned
Finish ==
    /\ pc = "rank"
    /\ tmp_groups = <<>>
    /\ ci = Len(criteria)
    /\ LET start == split_start(range, documents)
       IN IF start > Len(documents)
          THEN /\ pc' = "panic"
               /\ result' = <<>>
          ELSE /\ pc' = "done"
               /\ result' = truncate(split_off(documents, start), range)
    /\ UNCHANGED <<tvars, source, automatons, criteria, stream, calls, range, matches, documents,
                   groups, tmp_groups, current_range, ci, consumed, assembled, sorts>>

Next == Call \/ Pull \/ Assemble \/ BeginPass \/ GroupStep \/ Finish

Spec == Init /\ [][Next]_vars

\* --------------------------------------------------- TaskStore, the calls
\* register, the spawn_blocking closure: one write transaction allocates
\* the id, writes the task and commits, or fails and register returns
RegisterTxn(p) ==
    /\ tpc[p] = "idle"
    /\ next_task_id(store) <= MaxTaskId
    /\ \E ok \in BOOLEAN :
          LET id == next_task_id(store)
              task == [id |-> id, events |-> "Created"]
          IN /\ store' = commit(ok, store, put(store, task))
             /\ tpc' = [tpc EXCEPT ![p] = after_txn(ok)]
             /\ tid' = [tid EXCEPT ![p] = id]
             /\ last' = Returned("register_txn", {id}, {}, ok, 0, 0)
    /\ UNCHANGED <<pending_queue, rvars>>

\* register: self.pending_queue.write().await.push(Reverse(task.id))
RegisterPush(p) ==
    /\ tpc[p] = "reg_push"
    /\ pending_queue' = push(pending_queue, tid[p])
    /\ tpc' = [tpc EXCEPT ![p] = "idle"]
    /\ last' = Returned("register", {tid[p]}, {tid[p]}, TRUE, 0, 0)
    /\ UNCHANGED <<store, tid, rvars>>

\* peek_pending
PeekPending(p) ==
    /\ tpc[p] = "idle"
    /\ last' = Returned("peek_pending", {}, peek(pending_queue), TRUE, 0, 0)
    /\ UNCHANGED <<store, pending_queue, tpc, tid, rvars>>

\* get_processing_task: the peek
GetProcessingPeek(p) ==
    /\ tpc[p] = "idle"
    /\ LET uid == peek(pending_queue)
       IN IF uid = {}
          THEN /\ last' = Returned("get_processing_task", {}, {}, TRUE, 0, 0)
               /\ UNCHANGED <<tpc, tid>>
          ELSE /\ tpc' = [tpc EXCEPT ![p] = "gpt_get"]
               /\ tid' = [tid EXCEPT ![p] = CHOOSE id \in uid : TRUE]
               /\ last' = Returned("get_processing_peek", {}, uid, TRUE, 0, 0)
    /\ UNCHANGED <<store, pending_queue, rvars>>

\* get_processing_task: get_task(uid, None) and the test of the last event
GetProcessingGet(p) ==
    /\ tpc[p] = "gpt_get"
    /\ LET r == get_task(store, tid[p])
       IN last' = Returned("get_processing_task", {tid[p]},
                           {t.id : t \in {t \in r.task : t.events = "Processing"}},
                           r.ok, 0, 0)
    /\ tpc' = [tpc EXCEPT ![p] = "idle"]
    /\ UNCHANGED <<store, pending_queue, tid, rvars>>

\* get_task(id, None)
GetTask(p) ==
    /\ tpc[p] = "idle"
    /\ \E id \in TaskIds :
          LET r == get_task(store, id)
          IN last' = Returned("get_task", {id}, {t.id : t \in r.task}, r.ok, 0, 0)
    /\ UNCHANGED <<store, pending_queue, tpc, tid, rvars>>

\* list_tasks(None, None, None)
ListTasks(p) ==
    /\ tpc[p] = "idle"
    /\ last' = Returned("list_tasks", {}, {t.id : t \in list_tasks(store)}, TRUE, 0, 0)
    /\ UNCHANGED <<store, pending_queue, tpc, tid, rvars>>

\* update_tasks(tasks): one write transaction puts every task
UpdateTasks(p) ==
    /\ tpc[p] = "idle"
    /\ \E tasks \in TaskBatches, ok \in BOOLEAN :
          /\ store' = commit(ok, store, put_all(store, tasks))
          /\ last' = Returned("update_tasks", {tasks[i].id : i \in 1..Len(tasks)}, {}, ok, 0, 0)
    /\ UNCHANGED <<pending_queue, tpc, tid, rvars>>

\* delete_tasks(to_remove)
DeleteTasks(p) ==
    /\ tpc[p] = "idle"
    /\ \E to_remove \in SUBSET TaskIds :
          /\ pending_queue' = drain_filter_collect(pending_queue, to_remove)
          /\ last' = Returned("delete_tasks", to_remove, {}, TRUE, 0, 0)
    /\ UNCHANGED <<store, tpc, tid, rvars>>

\* a write transaction that reads next_task_id, puts a task of any id and
\* reads next_task_id again before it commits (test_increment_task_id)
PutInTxn(p) ==
    /\ tpc[p] = "idle"
    /\ \E id \in TaskIds :
          LET task == [id |-> id, events |-> "Empty"]
              previous_id == next_task_id(store)
              written == put(store, task)
          IN /\ store' = commit(TRUE, store, written)
             /\ \E next_id \in next_task_id_after_put(previous_id, task, written) :
                   last' = Returned("put", {id}, {}, TRUE, previous_id, next_id)
    /\ UNCHANGED <<pending_queue, tpc, tid, rvars>>

\* the ranking handle is not used while the task store runs
InitTasks ==
    /\ automatons = [j \in 1..NumAutomatons |-> 1]
    /\ stream = <<>>
    /\ criteria = <<>>
    /\ InitCall
    /\ TaskInit

NextTasks ==
    \E p \in Callers :
        \/ RegisterTxn(p)
        \/ RegisterPush(p)
        \/ PeekPending(p)
        \/ GetProcessingPeek(p)
        \/ GetProcessingGet(p)
        \/ GetTask(p)
        \/ ListTasks(p)
        \/ UpdateTasks(p)
        \/ DeleteTasks(p)
        \/ PutInTxn(p)

SpecTasks == InitTasks /\ [][NextTasks]_vars

\* ------------------------------------------------------ what the claims use
\* the places <<entry, occurrence record, location>> of a sequence of entries
OccPos(es) ==
    UNION {UNION {{<<e, i, k>> : k \in 1..Len(es[e].indexed_values[i].doc_indexes)} :
                    i \in 1..Len(es[e].indexed_values)} : e \in 1..Len(es)}

OccString(es, p) == es[p[1]].string
OccIndex(es, p) == es[p[1]].indexed_values[p[2]].index
OccDocIndex(es, p) == es[p[1]].indexed_values[p[2]].doc_indexes[p[3]]

OccOf(es, id) == {p \in OccPos(es) : OccDocIndex(es, p).document = id}

Count(s, x) == Cardinality({j \in 1..Len(s) : s[j] = x})

Elems(s) == {s[j] : j \in 1..Len(s)}

IsPermutation(a, b) ==
    /\ Len(a) = Len(b)
    /\ \A x \in Elems(a) \cup Elems(b) : Count(a, x) = Count(b, x)

Collected == pc \in {"rank", "done"}

\* a, b compare Equal under every criterion of the list
EquivalentUnderAll(a, b) ==
    \A k \in 1..Len(criteria) : evaluate(criteria[k], a, b) = "Equal"

\* a is before b in the lexicographic order of the criteria list
RECURSIVE LexLess(_, _, _)
LexLess(k, a, b) ==
    IF k > Len(criteria) THEN FALSE
    ELSE IF evaluate(criteria[k], a, b) = "Less" THEN TRUE
    ELSE IF evaluate(criteria[k], a, b) = "Greater" THEN FALSE
    ELSE LexLess(k + 1, a, b)

\* the orderings of the assembled documents that are fully sorted
FullSorts ==
    {a \in Arrangements(assembled) :
        \A i, j \in 1..Len(a) : i < j => ~LexLess(1, a[j], a[i])}

WindowStart == Min(range.start, Len(assembled))
WindowEnd == Min(range.end, Len(assembled))

\* ------------------------------------------------------------------ claims

\* C1 (as stated): the value returned is the window
\* [min(start, n), min(end, n)) of the assembled documents fully sorted by
\* the criteria list: it has the window's length, and the document at each
\* returned position is equivalent under every criterion to the document at
\* that position of the full sort.
C1_WindowOfFullSort ==
    pc = "done" =>
        /\ Len(result) = WindowEnd - WindowStart
        /\ \A F \in FullSorts : \A i \in 1..Len(result) :
              WindowStart + i <= Len(F) /\ EquivalentUnderAll(result[i], F[WindowStart + i])

\* C2: retrieve_documents never fails and returns exactly
\* min(end - start, n - min(start, n)) documents, n the number assembled.
C2_ResultLength ==
    /\ pc # "panic"
    /\ pc = "done" =>
          /\ Len(result) = Min(range.end - range.start, Len(assembled) - WindowStart)
          /\ Len(result) <= range.end - range.start
          /\ (range.start >= Len(assembled) => result = <<>>)

\* C2 witness: a call returned fewer documents than the Range is wide,
\* because the Range ends beyond the documents
C2_Witness ==
    /\ pc = "done"
    /\ criteria # <<>>
    /\ range.start > 0
    /\ range.start < Len(assembled)
    /\ range.end > Len(assembled)
    /\ Len(result) = Len(assembled) - range.start

\* C3: during and after the criterion passes the document sequence is a
\* permutation of the assembled Documents, each unchanged, and the value
\* returned holds no two Documents with the same id.
C3_DocumentsPermuted ==
    Collected =>
        /\ IsPermutation(documents, assembled)
        /\ \A i, j \in 1..Len(result) : i # j => result[i].id # result[j].id

\* C3 witness: a call that moved documents returned at least two of them
C3_Witness ==
    /\ pc = "done"
    /\ documents # assembled
    /\ Len(sorts) >= 2
    /\ Len(result) >= 2

\* C4: the assembler builds one Document for each document id of the
\* occurrences the stream delivered and none for any other id; the Document
\* holds one Match per occurrence of its id, with the occurrence's query
\* index, attribute and attribute position.
C4_OneDocumentPerId ==
    Collected =>
        LET ids == {OccDocIndex(consumed, p).document : p \in OccPos(consumed)}
        IN /\ {assembled[i].id : i \in 1..Len(assembled)} = ids
           /\ Len(assembled) = Cardinality(ids)
           /\ \A i \in 1..Len(assembled) :
                 LET d == assembled[i]
                     P == OccOf(consumed, d.id)
                 IN /\ Len(d.matches) = Cardinality(P)
                    /\ \A q \in 0..(NumAutomatons - 1), a \in 0..MaxAttribute, x \in 0..MaxPosition :
                          Cardinality({j \in 1..Len(d.matches) :
                                         /\ d.matches[j].query_index = q
                                         /\ d.matches[j].attribute = a
                                         /\ d.matches[j].attribute_index = x})
                          = Cardinality({p \in P :
                                           /\ OccIndex(consumed, p) = q
                                           /\ OccDocIndex(consumed, p).attribute = a
                                           /\ OccDocIndex(consumed, p).attribute_index = x})

\* C4 witness: one document matched by two automatons became one Document
\* with two Matches, one per query index
C4_Witness ==
    /\ pc = "rank"
    /\ Len(assembled) = 1
    /\ Len(assembled[1].matches) = 2
    /\ assembled[1].matches[1].query_index = 0
    /\ assembled[1].matches[2].query_index = 1

\* the order the claim C5 names: query index, distance, attribute id,
\* attribute position
CanonicalLessEq(a, b) ==
    \/ a.query_index < b.query_index
    \/ a.query_index = b.query_index /\ a.distance < b.distance
    \/ a.query_index = b.query_index /\ a.distance = b.distance
         /\ a.attribute < b.attribute
    \/ a.query_index = b.query_index /\ a.distance = b.distance
         /\ a.attribute = b.attribute /\ a.attribute_index <= b.attribute_index

CanonicalSorted(ms) == \A i \in 1..(Len(ms) - 1) : CanonicalLessEq(ms[i], ms[i + 1])

\* C5: every Document built has a match list that is non-decreasing under
\* the canonical Match order, whatever order the stream delivered the
\* occurrences in.
C5_MatchesSorted ==
    Collected =>
        /\ \A i \in 1..Len(assembled) : CanonicalSorted(assembled[i].matches)
        /\ \A i \in 1..Len(documents) : CanonicalSorted(documents[i].matches)

\* C5 witness: the occurrences of a document arrived out of the Match order
C5_Witness ==
    /\ pc = "rank"
    /\ \E id \in DOMAIN matches : ~CanonicalSorted(matches[id])

\* the Match the claim C6 expects of the occurrence at place p
ExpectedMatch(es, p) ==
    LET string == OccString(es, p)
        index == OccIndex(es, p)
    IN [query_index |-> index,
        distance |-> string.dist[index + 1],
        attribute |-> OccDocIndex(es, p).attribute,
        attribute_index |-> OccDocIndex(es, p).attribute_index,
        is_exact |-> (string.dist[index + 1] = 0 /\ string.len = automatons[index + 1])]

\* C6: every Match has the distance its automaton evaluates the streamed
\* string to, and is exact if and only if that distance is 0 and the
\* string is as long as the automaton's query.
C6_ExactRule ==
    Collected =>
        \A i \in 1..Len(assembled) :
            LET d == assembled[i]
                P == OccOf(consumed, d.id)
            IN \A x \in Elems(d.matches) \cup {ExpectedMatch(consumed, p) : p \in P} :
                  Count(d.matches, x) = Cardinality({p \in P : ExpectedMatch(consumed, p) = x})

\* C6 witness: a distance-0 Match on a string of another length than the
\* query is not exact, next to one that is exact
C6_Witness ==
    /\ pc = "rank"
    /\ \E i \in 1..Len(assembled) :
          /\ \E m \in Elems(assembled[i].matches) : m.distance = 0 /\ ~m.is_exact
          /\ \E m \in Elems(assembled[i].matches) : m.distance = 0 /\ m.is_exact

\* C7: whatever the Range, the stream is pulled to exhaustion, each entry
\* once, before any criterion is applied and before the call returns; a
\* second call on the handle collects no match and returns nothing.
C7_StreamDrained ==
    /\ calls = 1 => consumed \o stream = source
    /\ Collected => stream = <<>>
    /\ sorts # <<>> => stream = <<>>
    /\ calls >= 2 =>
          /\ consumed = <<>>
          /\ matches = EmptyMap
          /\ Collected => documents = <<>>
          /\ pc = "done" => result = <<>>

\* C7 witness: a second call with a Range that held documents the first
\* time has returned
C7_Witness ==
    /\ calls = 2
    /\ pc = "done"
    /\ source # <<>>
    /\ range.start = 0
    /\ range.end >= 1

\* C8 (as stated): in a criterion pass, a group whose positions [s, e) are
\* all outside [start, end) is not sorted by the criterion (no sort of two
\* or more of its documents is run) and keeps its documents in the order
\* they had.
C8_OutsideGroupsUntouched ==
    [][(pc = "rank" /\ tmp_groups # <<>>) =>
          LET group == Head(tmp_groups)
              s == current_range.end
              e == current_range.end + group.len
          IN (\A p \in s..(e - 1) : ~(range.start <= p /\ p < range.end))
                => /\ ~(sorts' # sorts /\ group.len >= 2)
                   /\ Slice(documents', group) = Slice(documents, group)]_vars

\* C9 (as stated): for an empty Range the call returns nothing and sorts
\* nothing: no comparator is invoked (no group of two or more documents is
\* sorted) and the documents keep their assembled order.
C9_EmptyRangeSortsNothing ==
    range.start = range.end =>
        /\ pc = "done" => result = <<>>
        /\ \A i \in 1..Len(sorts) : sorts[i].end - sorts[i].start <= 1
        /\ Collected => documents = assembled

\* C10: with no criterion the call returns the assembled documents in
\* their order, cut to [min(start, n), min(end, n)), and never fails.
C10_NoCriteria ==
    criteria = <<>> =>
        /\ pc # "panic"
        /\ Collected => documents = assembled
        /\ pc = "done" => result = SubSeq(assembled, WindowStart + 1, WindowEnd)

\* C10 witness: a call without criteria returned the tail of two documents
C10_Witness ==
    /\ criteria = <<>>
    /\ pc = "done"
    /\ Len(assembled) = 2
    /\ range.start = 1
    /\ range.end > 2
    /\ result = <<assembled[2]>>

\* the occurrence at place p of es as a stream entry of its own
OccEntry(es, p) ==
    [string |-> OccString(es, p),
     indexed_values |-> <<[index |-> OccIndex(es, p),
                           doc_indexes |-> <<OccDocIndex(es, p)>>]>>]

\* every order in which a stream can deliver the occurrences of es
Deliveries(es) ==
    LET P == OccPos(es)
        n == Cardinality(P)
    IN {[i \in 1..n |-> OccEntry(es, o[i])] :
          o \in {o \in [1..n -> P] : \A i, j \in 1..n : i # j => o[i] # o[j]}}

\* the map the while loop builds from the stream es
RECURSIVE CollectStream(_, _)
CollectStream(m, es) ==
    IF es = <<>> THEN m
    ELSE CollectStream(
           CollectIndexedValues(m, automatons, Head(es).string, Head(es).indexed_values),
           Tail(es))

\* C11: a stream that delivers the same occurrences in another order is
\* assembled into Documents with the same ids and, for each id, the same
\* match list.
C11_OrderInsensitive ==
    Collected =>
        \A es \in Deliveries(consumed) :
            \A docs \in AssembledDocuments(CollectStream(EmptyMap, es)) :
                /\ Len(docs) = Len(assembled)
                /\ \A i \in 1..Len(docs) : \E j \in 1..Len(assembled) : docs[i] = assembled[j]

\* C11 witness: two occurrences of one document were delivered in the
\* order opposite to the Match order
C11_Witness ==
    /\ pc = "rank"
    /\ Len(consumed) = 2
    /\ Len(assembled) = 1
    /\ Len(assembled[1].matches) = 2
    /\ matches[assembled[1].id] = <<assembled[1].matches[2], assembled[1].matches[1]>>
    /\ assembled[1].matches[1] # assembled[1].matches[2]

\* C14 (as stated): in a criterion pass every group whose positions [s, e)
\* overlap the Range (s < end and start < e) is sorted in place by the
\* criterion and split into its maximal runs, the groups that lie inside
\* the Range without holding the position start included: after the step
\* the group is non-decreasing under the comparator and the groups pushed
\* are runs of it, the first run at least.
C14_OverlappingGroupsSorted ==
    [][(pc = "rank" /\ tmp_groups # <<>>) =>
          LET group == Head(tmp_groups)
              criterion == criteria[ci]
              s == current_range.end
              e == current_range.end + group.len
              runs == GroupByMut(Slice(documents', group), group.off, criterion)
          IN (s < range.end /\ range.start < e)
                => /\ SortedBy(criterion, Slice(documents', group))
                   /\ \E k \in 1..Len(runs) : groups' = groups \o SubSeq(runs, 1, k)]_vars

\* the groups are slices that follow one another from position 0
Contiguous(gs) ==
    /\ gs # <<>> => gs[1].off = 0
    /\ \A i \in 1..(Len(gs) - 1) : gs[i + 1].off = gs[i].off + gs[i].len

RECURSIVE SumLen(_)
SumLen(gs) == IF gs = <<>> THEN 0 ELSE Head(gs).len + SumLen(Tail(gs))

\* C15 (as stated): after every criterion pass, the early exit taken or
\* not, the working groups are a partition of the whole document
\* sequence: they follow one another from position 0 without overlap,
\* their lengths sum to the number of documents, and the documents are
\* every assembled Document exactly once.
C15_GroupsPartition ==
    (Collected /\ tmp_groups = <<>>) =>
        /\ Contiguous(groups)
        /\ SumLen(groups) = Len(documents)
        /\ IsPermutation(documents, assembled)

\* the first criterion's pass is over
AfterFirstPass == Collected /\ (ci >= 2 \/ (ci = 1 /\ tmp_groups = <<>>))

\* the orderings of the assembled documents sorted by the first criterion
FirstSorts == {a \in Arrangements(assembled) : SortedBy(criteria[1], a)}

\* C16: with a non-empty criteria list and a Range that starts before the
\* number of documents, once the first pass is over the document at every
\* position compares Equal, under the first criterion, to the document at
\* that position of the sequence sorted by the first criterion (so no later
\* pass moves a document across a class of the first criterion), and the
\* window returned is non-decreasing under the first criterion and agrees
\* with that sorted sequence position by position.
C16_FirstCriterionWindow ==
    (criteria # <<>> /\ AfterFirstPass /\ range.start < Len(assembled)) =>
        \A F \in FirstSorts :
            /\ \A i \in 1..Len(documents) :
                  evaluate(criteria[1], documents[i], F[i]) = "Equal"
            /\ pc = "done" =>
                  /\ SortedBy(criteria[1], result)
                  /\ \A i \in 1..Len(result) :
                        evaluate(criteria[1], result[i], F[range.start + i]) = "Equal"

\* C16 witness: a call with two criteria and a Range inside the documents
\* has returned; the first criterion has a class of two documents and
\* another class, and the second pass sorted a group of two documents
C16_Witness ==
    /\ pc = "done"
    /\ Len(criteria) = 2
    /\ range.start < Len(assembled)
    /\ Len(result) >= 2
    /\ \E i, j \in 1..Len(assembled) :
          i # j /\ evaluate(criteria[1], assembled[i], assembled[j]) = "Equal"
    /\ \E i, j \in 1..Len(assembled) :
          evaluate(criteria[1], assembled[i], assembled[j]) = "Less"
    /\ \E k \in 1..Len(sorts) : sorts[k].criterion = 2 /\ sorts[k].end - sorts[k].start >= 2

\* every criterion's eq holds exactly when its evaluate is Equal
EqIsEqual == \A k \in 1..Len(criteria) : ~criteria[k].fine

\* C17: for a Range that starts at 0 and ends at 1 or later, at least one
\* document, and criteria whose eq holds exactly when evaluate is Equal,
\* the first document returned is a minimum of the lexicographic order: no
\* assembled document is strictly before it.
C17_FirstIsMinimum ==
    (pc = "done" /\ range.start = 0 /\ range.end >= 1 /\ assembled # <<>> /\ EqIsEqual) =>
        /\ result # <<>>
        /\ \A i \in 1..Len(assembled) : ~LexLess(1, assembled[i], result[1])

\* C17 witness: two criteria; the document returned first ties under the
\* first criterion with another document and is before it under the second
C17_Witness ==
    /\ pc = "done"
    /\ range.start = 0
    /\ range.end >= 1
    /\ Len(criteria) = 2
    /\ EqIsEqual
    /\ result # <<>>
    /\ result[1] # assembled[1]
    /\ \E i \in 1..Len(assembled) :
          /\ evaluate(criteria[1], assembled[i], result[1]) = "Equal"
          /\ evaluate(criteria[2], result[1], assembled[i]) = "Less"

\* ------------------------------------------------- claims on the TaskStore
\* the task id that was put in the last step
PutId == CHOOSE id \in last.arg : TRUE

\* C12, as stated: on an empty store next_task_id returns 0; in a write
\* transaction where next_task_id returned p, after the put of a task of
\* id t next_task_id returns p when t <= p, and t + 1 otherwise. It is not
\* settled: of the two values next_task_id_after_put allows when t = p,
\* one satisfies it and the other does not.
C12_NextTaskId ==
    /\ DOMAIN store = {} => next_task_id(store) = 0
    /\ last.op = "put" =>
          last.next_id = IF PutId <= last.previous_id THEN last.previous_id ELSE PutId + 1

\* C12 away from t = p, where the assertion of the test and its comment
\* agree: p when t < p, t + 1 when t > p.
C12_AwayFromPreviousId ==
    /\ DOMAIN store = {} => next_task_id(store) = 0
    /\ (last.op = "put" /\ PutId < last.previous_id) => last.next_id = last.previous_id
    /\ (last.op = "put" /\ PutId > last.previous_id) => last.next_id = PutId + 1

\* the smallest id of the queue, none for the empty queue
Smallest(q) == {id \in Elems(q) : \A other \in Elems(q) : id <= other}

\* C13: peek_pending returns the smallest id of the pending queue, None
\* exactly when the queue is empty, and leaves the queue and the store as
\* they were.
C13_PeekPending ==
    [][last'.op = "peek_pending" =>
          /\ last'.ret = Smallest(pending_queue)
          /\ (last'.ret = {}) <=> (pending_queue = <<>>)
          /\ pending_queue' = pending_queue
          /\ store' = store]_vars

\* C13 witness: a peek of a queue of two or more ids that holds 0 and 2
\* returned 0
C13_Witness ==
    /\ last.op = "peek_pending"
    /\ Len(pending_queue) >= 2
    /\ last.ret = {0}
    /\ 2 \in Elems(pending_queue)

\* C18 (as stated): under every interleaving of register calls the ids
\* enter the pending queue in increasing order: peek_pending never returns
\* an id while a smaller id is committed by register and not yet pushed.
C18_PushedInIdOrder ==
    last.op = "peek_pending" =>
        \A id \in last.ret : \A p \in Callers : tpc[p] = "reg_push" => tid[p] > id

\* C19: every id of the pending queue, and every id a register call is
\* about to push, is the id of a task committed to the store; get_task on
\* the id get_processing_task peeked never fails with UnexistingTask.
C19_PendingAreCommitted ==
    /\ \A id \in Elems(pending_queue) : id \in DOMAIN store
    /\ \A p \in Callers : tpc[p] = "reg_push" => tid[p] \in DOMAIN store
    /\ last.op = "get_processing_task" => last.ok

\* C19 witness: get_processing_task read, without an error, the task of
\* the id it had peeked, which delete_tasks had meanwhile removed from the
\* queue
C19_Witness ==
    /\ last.op = "get_processing_task"
    /\ last.arg # {}
    /\ \A id \in last.arg : id \notin Elems(pending_queue)
    /\ last.ok

\* C20: delete_tasks(to_remove) removes from the pending queue exactly the
\* ids of to_remove and keeps every other id, the queue still a min-heap;
\* it returns Ok and leaves the store as it was, so that get_task and
\* list_tasks still return the task of a removed id.
C20_DeleteTasks ==
    [][last'.op = "delete_tasks" =>
          /\ \A id \in TaskIds :
                Count(pending_queue', id) =
                    IF id \in last'.arg THEN 0 ELSE Count(pending_queue, id)
          /\ \A i \in 1..(Len(pending_queue') - 1) : pending_queue'[i] <= pending_queue'[i + 1]
          /\ last'.ok
          /\ store' = store
          /\ \A id \in last'.arg \cap DOMAIN store :
                /\ get_task(store', id) = [ok |-> TRUE, task |-> {store[id]}]
                /\ store[id] \in list_tasks(store')]_vars

\* C20 witness: delete_tasks removed a pending id and kept another; the
\* task of the removed id is in the store
C20_Witness ==
    /\ last.op = "delete_tasks"
    /\ pending_queue # <<>>
    /\ \E id \in last.arg : id \in DOMAIN store /\ id < pending_queue[1]
    /\ \E id \in last.arg : id > pending_queue[1]
====
